---- MODULE Spec2Model ----
(***************************************************************************)
(* Model of the onepassword adapter layer: the client calls of item.go and *)
(* vault.go, the section/field codec of item.go, and the identity and      *)
(* document resource handlers.  Every operation is synchronous: it is one  *)
(* action that takes its arguments and the outcomes of the external        *)
(* processes it runs as inputs and leaves its result in the state.         *)
(***************************************************************************)
EXTENDS Integers, Sequences, FiniteSets, TLC

VARIABLES
    pc,     \* "idle": no call in progress; "returned": a call has returned
    call,   \* the operation invoked and its arguments
    ret,    \* what the operation returned (error, value, record, trail)
    procs   \* the process events of the operation, in order

vars == <<pc, call, ret, procs>>

(***************************************************************************)
(* Bounds of the model.                                                    *)
(***************************************************************************)
MaxFails == 1       \* how many attribute-set steps may fail in one read
MaxSections == 2    \* sections in a decoded list
MaxGroups == 2      \* groups in a decoded group list

(***************************************************************************)
(* Constants of item.go and vault.go.                                      *)
(***************************************************************************)
ItemResource == "item"
DocumentResource == "document"
VaultResource == "vault"
Stdin == "-"
IsTrashed == "Y"
opPasswordGet == "get"
opPasswordCreate == "create"
opPasswordDelete == "delete"

LoginCategory == "Login"
IdentityCategory == "Identity"
DatabaseCategory == "Database"
MembershipCategory == "Membership"
WirelessRouterCategory == "Wireless Router"
SecureNoteCategory == "Secure Note"
SoftwareLicenseCategory == "Software License"
CreditCardCategory == "Credit Card"
DriverLicenseCategory == "Driver License"
OutdoorLicenseCategory == "Outdoor License"
PassportCategory == "Passport"
EmailAccountCategory == "Email Account"
PasswordCategory == "Password"
RewardProgramCategory == "Reward Program"
SocialSecurityNumberCategory == "Social Security Number"
BankAccountCategory == "Bank Account"
DocumentCategory == "Document"
ServerCategory == "Server"
UnknownCategory == "UNKNOWN"

TypeSex == "menu"
TypeCard == "cctype"
TypeAddress == "address"
TypeString == "string"
TypeURL == "URL"
TypeEmail == "email"
TypeDate == "date"
TypeMonthYear == "monthYear"
TypeConcealed == "concealed"
TypePhone == "phone"
TypeReference == "reference"

\* Go's nil error, nil *Item, and a payload that is not the expected JSON.
Nil == "nil"
NoItem == [nil |-> TRUE]
Garbage == [garbage |-> TRUE]

(***************************************************************************)
(* Text.  Process output is a sequence of words; strings.Contains is the   *)
(* search for a contiguous run of words.                                   *)
(***************************************************************************)
Contains(s, sub) ==
    \E i \in 0..(Len(s) - Len(sub)) : SubSeq(s, i + 1, i + Len(sub)) = sub

HasPrefix(s, prefix) ==
    Len(s) >= Len(prefix) /\ SubSeq(s, 1, Len(prefix)) = prefix

NotAnItemPhrase == <<"isn't", "an", "item", "in">>
NotFoundPhrase == <<"The", "requested", "resource", "was", "not", "found">>

(***************************************************************************)
(* The process runner.  One run spawns one process, optionally writes the  *)
(* stdin bytes, and waits for its exit.  The outcome o is the process's:   *)
(*   status "ok" (exit 0), "exit" (an exec.ExitError, o.code # 0) or       *)
(*   "fail" (the process could not be run at all: an error that is no      *)
(*   ExitError); o.words is the output text, o.obj the JSON value the      *)
(*   output holds (Garbage when it is not JSON of the expected shape).     *)
(***************************************************************************)
RunCmd(args, stdin, o) ==
    [res |-> o,
     failed |-> o.status # "ok",
     events |-> << [ev |-> "spawn", args |-> args, stdin |-> stdin],
                   [ev |-> "exit", status |-> o.status, code |-> o.code] >>]

RunSimpleCmd(args, o) == RunCmd(args, <<>>, o)

RunStdinCmd(content, args, o) == RunCmd(args, content, o)

prettyError(args, res) == "process failed"

\* json.Unmarshal of the output into a struct.
Unmarshal(res) ==
    IF res.obj = Garbage THEN [err |-> "invalid json", val |-> Garbage]
    ELSE [err |-> Nil, val |-> res.obj]

\* The identifier of a create command's result payload.
getResultID(res) ==
    IF res.obj # Garbage /\ "uuid" \in DOMAIN res.obj
    THEN [err |-> Nil, id |-> res.obj.uuid]
    ELSE [err |-> "no identifier in the result", id |-> ""]

(***************************************************************************)
(* item.go: itemNotFound, the registry, the client calls.                  *)
(***************************************************************************)
\* itemNotFound without the exit codes: any failed run whose output holds
\* one of the phrases counts as a miss.
itemNotFoundAnyCode(res) ==
    /\ res.status = "exit"
    /\ \/ Contains(res.words, NotAnItemPhrase)
       \/ Contains(res.words, NotFoundPhrase)

itemNotFound(res) ==
    /\ res.status = "exit"
    /\ \/ (res.code = 1 /\ Contains(res.words, NotAnItemPhrase))
       \/ (res.code = 4 /\ Contains(res.words, NotFoundPhrase))

\* fmt.Sprintf("--name=%s", value)
Flag(name, value) == name \o "=" \o value

\* ReadItem running the command a second time when the first run failed.
ReadItemRetry(id, vaultID, o) ==
    LET args == <<opPasswordGet, ItemResource, id>>
                \o (IF vaultID # "" THEN <<Flag("--vault", vaultID)>> ELSE <<>>)
        run == RunSimpleCmd(args, o)
        again == RunSimpleCmd(args, o)
        dec == Unmarshal(run.res)
    IN  IF run.failed
        THEN IF itemNotFound(again.res)
             THEN [item |-> NoItem, err |-> Nil, events |-> run.events \o again.events]
             ELSE [item |-> NoItem, err |-> prettyError(args, again.res),
                   events |-> run.events \o again.events]
        ELSE IF dec.err # Nil
             THEN [item |-> NoItem, err |-> dec.err, events |-> run.events]
             ELSE [item |-> dec.val, err |-> Nil, events |-> run.events]

ReadItem(id, vaultID, o) ==
    LET args == <<opPasswordGet, ItemResource, id>>
                \o (IF vaultID # "" THEN <<Flag("--vault", vaultID)>> ELSE <<>>)
        run == RunSimpleCmd(args, o)
        dec == Unmarshal(run.res)
    IN  IF run.failed
        THEN IF itemNotFound(run.res)
             THEN [item |-> NoItem, err |-> Nil, events |-> run.events]
             ELSE [item |-> NoItem, err |-> prettyError(args, run.res),
                   events |-> run.events]
        ELSE IF dec.err # Nil
             THEN [item |-> NoItem, err |-> dec.err, events |-> run.events]
             ELSE [item |-> dec.val, err |-> Nil, events |-> run.events]

\* Category2Template with the Identity case returning the Document template.
Category2TemplateSlip(c) ==
    CASE c = LoginCategory -> "001"
      [] c = IdentityCategory -> "006"
      [] c = PasswordCategory -> "005"
      [] c = PassportCategory -> "106"
      [] c = DatabaseCategory -> "102"
      [] c = ServerCategory -> "010"
      [] c = DriverLicenseCategory -> "103"
      [] c = OutdoorLicenseCategory -> "104"
      [] c = SoftwareLicenseCategory -> "100"
      [] c = EmailAccountCategory -> "111"
      [] c = RewardProgramCategory -> "107"
      [] c = WirelessRouterCategory -> "109"
      [] c = DocumentCategory -> "006"
      [] c = BankAccountCategory -> "101"
      [] c = SocialSecurityNumberCategory -> "108"
      [] c = CreditCardCategory -> "002"
      [] c = SecureNoteCategory -> "003"
      [] c = MembershipCategory -> "105"
      [] OTHER -> "000"

Category2Template(c) ==
    CASE c = LoginCategory -> "001"
      [] c = IdentityCategory -> "004"
      [] c = PasswordCategory -> "005"
      [] c = PassportCategory -> "106"
      [] c = DatabaseCategory -> "102"
      [] c = ServerCategory -> "010"
      [] c = DriverLicenseCategory -> "103"
      [] c = OutdoorLicenseCategory -> "104"
      [] c = SoftwareLicenseCategory -> "100"
      [] c = EmailAccountCategory -> "111"
      [] c = RewardProgramCategory -> "107"
      [] c = WirelessRouterCategory -> "109"
      [] c = DocumentCategory -> "006"
      [] c = BankAccountCategory -> "101"
      [] c = SocialSecurityNumberCategory -> "108"
      [] c = CreditCardCategory -> "002"
      [] c = SecureNoteCategory -> "003"
      [] c = MembershipCategory -> "105"
      [] OTHER -> "000"

\* Template2Category with a default that guesses a category.
Template2CategoryGuess(t) ==
    CASE t = "001" -> LoginCategory
      [] t = "004" -> IdentityCategory
      [] t = "005" -> PasswordCategory
      [] t = "106" -> PassportCategory
      [] t = "102" -> DatabaseCategory
      [] t = "010" -> ServerCategory
      [] t = "103" -> DriverLicenseCategory
      [] t = "104" -> OutdoorLicenseCategory
      [] t = "100" -> SoftwareLicenseCategory
      [] t = "111" -> EmailAccountCategory
      [] t = "107" -> RewardProgramCategory
      [] t = "109" -> WirelessRouterCategory
      [] t = "006" -> DocumentCategory
      [] t = "101" -> BankAccountCategory
      [] t = "108" -> SocialSecurityNumberCategory
      [] t = "002" -> CreditCardCategory
      [] t = "003" -> SecureNoteCategory
      [] t = "105" -> MembershipCategory
      [] OTHER -> LoginCategory

Template2Category(t) ==
    CASE t = "001" -> LoginCategory
      [] t = "004" -> IdentityCategory
      [] t = "005" -> PasswordCategory
      [] t = "106" -> PassportCategory
      [] t = "102" -> DatabaseCategory
      [] t = "010" -> ServerCategory
      [] t = "103" -> DriverLicenseCategory
      [] t = "104" -> OutdoorLicenseCategory
      [] t = "100" -> SoftwareLicenseCategory
      [] t = "111" -> EmailAccountCategory
      [] t = "107" -> RewardProgramCategory
      [] t = "109" -> WirelessRouterCategory
      [] t = "006" -> DocumentCategory
      [] t = "101" -> BankAccountCategory
      [] t = "108" -> SocialSecurityNumberCategory
      [] t = "002" -> CreditCardCategory
      [] t = "003" -> SecureNoteCategory
      [] t = "105" -> MembershipCategory
      [] OTHER -> UnknownCategory

\* json.Marshal of the details, then the URL-safe base64 of the bytes.
MarshalDetails(details) == [err |-> Nil, blob |-> <<"base64url", details>>]

\* strings.Join(elems, sep)
RECURSIVE Join(_, _)
Join(elems, sep) ==
    IF Len(elems) = 0 THEN ""
    ELSE IF Len(elems) = 1 THEN elems[1]
    ELSE elems[1] \o sep \o Join(Tail(elems), sep)

JoinTags(tags) == Join(tags, ",")

\* CreateItem appending every flag, whether or not its value is empty.
CreateItemEveryFlag(v, o) ==
    LET m == MarshalDetails(v.Details)
        template == Template2Category(v.Template)
        args == <<opPasswordCreate, ItemResource, template, m.blob,
                  Flag("--vault", v.Vault),
                  Flag("--title", v.Overview.Title),
                  Flag("--url", v.Overview.URL),
                  Flag("--tags", JoinTags(v.Overview.Tags))>>
        run == RunSimpleCmd(args, o)
        r == getResultID(run.res)
    IN  IF m.err # Nil
        THEN [v |-> v, err |-> m.err, events |-> <<>>]
        ELSE IF template = UnknownCategory
        THEN [v |-> v, err |-> "unknown template id", events |-> <<>>]
        ELSE IF ~run.failed
        THEN [v |-> IF r.err = Nil THEN [v EXCEPT !.UUID = r.id] ELSE v,
              err |-> Nil, events |-> run.events]
        ELSE [v |-> v, err |-> prettyError(args, run.res), events |-> run.events]

CreateItem(v, o) ==
    LET m == MarshalDetails(v.Details)
        template == Template2Category(v.Template)
        args == <<opPasswordCreate, ItemResource, template, m.blob>>
                \o (IF v.Vault # "" THEN <<Flag("--vault", v.Vault)>> ELSE <<>>)
                \o (IF v.Overview.Title # ""
                    THEN <<Flag("--title", v.Overview.Title)>> ELSE <<>>)
                \o (IF v.Overview.URL # ""
                    THEN <<Flag("--url", v.Overview.URL)>> ELSE <<>>)
                \o (IF Len(v.Overview.Tags) > 0
                    THEN <<Flag("--tags", JoinTags(v.Overview.Tags))>> ELSE <<>>)
        run == RunSimpleCmd(args, o)
        r == getResultID(run.res)
    IN  IF m.err # Nil
        THEN [v |-> v, err |-> m.err, events |-> <<>>]
        ELSE IF template = UnknownCategory
        THEN [v |-> v, err |-> "unknown template id", events |-> <<>>]
        ELSE IF ~run.failed
        THEN \* the inner err of getResultID is scoped to the if statement:
             \* the err returned is the runner's, which is nil here
             [v |-> IF r.err = Nil THEN [v EXCEPT !.UUID = r.id] ELSE v,
              err |-> Nil, events |-> run.events]
        ELSE [v |-> v, err |-> prettyError(args, run.res), events |-> run.events]

ReadDocument(id, o) ==
    LET args == <<opPasswordGet, DocumentResource, id>>
        run == RunSimpleCmd(args, o)
    IN  IF run.failed
        THEN [content |-> run.res.bytes, err |-> prettyError(args, run.res),
              events |-> run.events]
        ELSE [content |-> run.res.bytes, err |-> Nil, events |-> run.events]

CreateDocument(v, content, o) ==
    LET args == <<opPasswordCreate, DocumentResource, Stdin,
                  Flag("--title", v.Overview.Title),
                  Flag("--filename", v.Details.DocumentAttributes.FileName)>>
                \o (IF Len(v.Overview.Tags) > 0
                    THEN <<Flag("--tags", JoinTags(v.Overview.Tags))>> ELSE <<>>)
                \o (IF v.Vault # "" THEN <<Flag("--vault", v.Vault)>> ELSE <<>>)
        run == RunStdinCmd(content, args, o)
        r == getResultID(run.res)
    IN  IF ~run.failed
        THEN [v |-> IF r.err = Nil THEN [v EXCEPT !.UUID = r.id] ELSE v,
              err |-> Nil, events |-> run.events]
        ELSE [v |-> v, err |-> prettyError(args, run.res), events |-> run.events]

Delete(resource, id, o) ==
    LET args == <<opPasswordDelete, resource, id>>
        run == RunSimpleCmd(args, o)
    IN  IF run.failed
        THEN [err |-> prettyError(args, run.res), events |-> run.events]
        ELSE [err |-> Nil, events |-> run.events]

DeleteItem(id, o) == Delete(ItemResource, id, o)

(***************************************************************************)
(* vault.go                                                                *)
(***************************************************************************)
ReadVault(id, o) ==
    LET args == <<opPasswordGet, VaultResource, id>>
        run == RunCmd(args, <<>>, o)
        dec == Unmarshal(run.res)
    IN  IF run.failed
        THEN [vault |-> NoItem, err |-> prettyError(args, run.res),
              events |-> run.events]
        ELSE IF dec.err # Nil
             THEN [vault |-> NoItem, err |-> dec.err, events |-> run.events]
             ELSE [vault |-> dec.val, err |-> Nil, events |-> run.events]

CreateVault(v, o) ==
    LET args == <<opPasswordCreate, VaultResource, v.Name>>
        run == RunCmd(args, <<>>, o)
        dec == Unmarshal(run.res)
    IN  IF run.failed
        THEN [vault |-> NoItem, err |-> prettyError(args, run.res),
              events |-> run.events]
        ELSE IF dec.err # Nil
             THEN [vault |-> NoItem, err |-> dec.err, events |-> run.events]
             ELSE [vault |-> dec.val, err |-> Nil, events |-> run.events]

(***************************************************************************)
(* item.go: the section/field codec.  A map[string]interface{} is a        *)
(* function on the set of its keys; assigning a key that is already there  *)
(* replaces its value.                                                     *)
(***************************************************************************)
Put(m, k, v) == [x \in (DOMAIN m) \cup {k} |-> IF x = k THEN v ELSE m[x]]

TotpPrefix == <<"TOTP_">>

\* A field-name key is a sequence of parts, so that HasPrefix can look at it.
\* FieldKey without the TOTP_ case.
FieldKeyNoTotp(field) ==
    CASE field.Type = TypeSex -> "sex"
      [] field.Type = TypeURL -> "url"
      [] field.Type = TypeMonthYear -> "month_year"
      [] field.Type = TypeCard -> "card_type"
      [] field.Type = TypeConcealed -> "concealed"
      [] OTHER -> field.Type

FieldKey(field) ==
    CASE field.Type = TypeSex -> "sex"
      [] field.Type = TypeURL -> "url"
      [] field.Type = TypeMonthYear -> "month_year"
      [] field.Type = TypeCard -> "card_type"
      [] field.Type = TypeConcealed ->
            IF HasPrefix(field.N, TotpPrefix) THEN "totp" ELSE "concealed"
      [] OTHER -> field.Type

ProcessField(srcFields) ==
    [i \in 1..Len(srcFields) |->
        Put([name |-> srcFields[i].Text], FieldKey(srcFields[i]), srcFields[i].Value)]

ProcessSections(srcSections) ==
    [i \in 1..Len(srcSections) |->
        [name |-> srcSections[i].Title, field |-> ProcessField(srcSections[i].Fields)]]

(***************************************************************************)
(* The configuration record (schema.ResourceData): an ID and attributes.   *)
(* Setting an attribute fails when the framework rejects the value's       *)
(* shape; which attributes it rejects is an input (fails).  The record     *)
(* also keeps the list of the writes made to it (log), for the properties. *)
(***************************************************************************)
SetId(d, id) == [d EXCEPT !.id = id]

Set(d, key, value, fails) ==
    IF key \in fails
    THEN [d |-> d, err |-> "set failed"]
    ELSE [d |-> [d EXCEPT !.attrs = Put(d.attrs, key, value),
                          !.log = Append(@, [key |-> key, value |-> value])],
          err |-> Nil]

getID(d) == d.id

\* Lines 405-417: the fields of a matching section, against one group.
MatchedKeys(group, field) ==
    {k \in DOMAIN group.Fields : group.Fields[k] = field.N}

RECURSIVE PutAll(_, _, _)
PutAll(m, keys, v) ==
    IF keys = {} THEN m
    ELSE LET k == CHOOSE x \in keys : TRUE
         IN  PutAll(Put(m, k, v), keys \ {k}, v)

RECURSIVE PartitionFields(_, _, _, _, _)
PartitionFields(fields, i, group, src, leftFields) ==
    IF i > Len(fields) THEN [src |-> src, leftFields |-> leftFields]
    ELSE LET ks == MatchedKeys(group, fields[i])
         IN  IF ks # {}
             THEN PartitionFields(fields, i + 1, group,
                                  PutAll(src, ks, fields[i].Value), leftFields)
             ELSE PartitionFields(fields, i + 1, group, src,
                                  Append(leftFields, fields[i]))

GroupSource(section, group) ==
    LET p == PartitionFields(section.Fields, 1, group,
                             [title |-> section.Title], <<>>)
    IN  Put(p.src, "field", ProcessField(p.leftFields))

\* GroupLoop leaving the loop at the first matching group.
RECURSIVE GroupLoopFirstOnly(_, _, _, _, _, _)
GroupLoopFirstOnly(section, groups, j, d, use, fails) ==
    IF j > Len(groups) THEN [d |-> d, use |-> use, err |-> Nil]
    ELSE IF section.Name = groups[j].Selector
    THEN LET s == Set(d, groups[j].Name, <<GroupSource(section, groups[j])>>, fails)
         IN  IF s.err # Nil THEN [d |-> s.d, use |-> TRUE, err |-> s.err]
             ELSE [d |-> s.d, use |-> TRUE, err |-> Nil]
    ELSE GroupLoopFirstOnly(section, groups, j + 1, d, use, fails)

\* Lines 398-423: one section against every group, in list order.
RECURSIVE GroupLoop(_, _, _, _, _, _)
GroupLoop(section, groups, j, d, use, fails) ==
    IF j > Len(groups) THEN [d |-> d, use |-> use, err |-> Nil]
    ELSE IF section.Name = groups[j].Selector
    THEN LET s == Set(d, groups[j].Name, <<GroupSource(section, groups[j])>>, fails)
         IN  IF s.err # Nil THEN [d |-> s.d, use |-> TRUE, err |-> s.err]
             ELSE GroupLoop(section, groups, j + 1, s.d, TRUE, fails)
    ELSE GroupLoop(section, groups, j + 1, d, use, fails)

\* Lines 396-427: every section, in list order.
RECURSIVE SectionLoop(_, _, _, _, _, _)
SectionLoop(sections, i, d, leftSections, groups, fails) ==
    IF i > Len(sections)
    THEN [d |-> d, leftSections |-> leftSections, err |-> Nil]
    ELSE LET g == GroupLoop(sections[i], groups, 1, d, FALSE, fails)
         IN  IF g.err # Nil
             THEN [d |-> g.d, leftSections |-> leftSections, err |-> g.err]
             ELSE SectionLoop(sections, i + 1, g.d,
                              IF g.use THEN leftSections
                              ELSE Append(leftSections, sections[i]),
                              groups, fails)

parseSectionFromSchema(sections, d, groups, fails) ==
    LET l == SectionLoop(sections, 1, d, <<>>, groups, fails)
    IN  IF l.err # Nil THEN [d |-> l.d, err |-> l.err]
        ELSE Set(l.d, "section", ProcessSections(l.leftSections), fails)

(***************************************************************************)
(* Bytes and base64 (encoding/base64, StdEncoding).  A byte is 0..255, an  *)
(* encoded text a sequence of alphabet positions 0..63 with 64 for the     *)
(* padding character and 65 for a character outside the alphabet.  A Go    *)
(* string holds bytes, so string(content) and []byte(text) keep them.      *)
(***************************************************************************)
B64Pad == 64

RECURSIVE B64Encode(_)
B64Encode(b) ==
    IF Len(b) = 0 THEN <<>>
    ELSE IF Len(b) = 1
    THEN <<b[1] \div 4, (b[1] % 4) * 16, B64Pad, B64Pad>>
    ELSE IF Len(b) = 2
    THEN <<b[1] \div 4, (b[1] % 4) * 16 + (b[2] \div 16), (b[2] % 16) * 4, B64Pad>>
    ELSE <<b[1] \div 4, (b[1] % 4) * 16 + (b[2] \div 16),
           (b[2] % 16) * 4 + (b[3] \div 64), b[3] % 64>>
         \o B64Encode(SubSeq(b, 4, Len(b)))

RECURSIVE B64Decode(_)
B64Decode(s) ==
    LET bad == [err |-> "illegal base64 data", bytes |-> <<>>]
        rest == B64Decode(SubSeq(s, 5, Len(s)))
        b1 == s[1] * 4 + (s[2] \div 16)
        b2 == (s[2] % 16) * 16 + (s[3] \div 4)
        b3 == (s[3] % 4) * 64 + s[4]
    IN  IF Len(s) = 0 THEN [err |-> Nil, bytes |-> <<>>]
        ELSE IF Len(s) < 4 \/ s[1] > 63 \/ s[2] > 63 \/ s[3] > 64 \/ s[4] > 64
        THEN bad
        ELSE IF s[3] = B64Pad
        THEN IF s[4] = B64Pad /\ Len(s) = 4
             THEN [err |-> Nil, bytes |-> <<b1>>] ELSE bad
        ELSE IF s[4] = B64Pad
        THEN IF Len(s) = 4 THEN [err |-> Nil, bytes |-> <<b1, b2>>] ELSE bad
        ELSE IF rest.err # Nil THEN bad
        ELSE [err |-> Nil, bytes |-> <<b1, b2, b3>> \o rest.bytes]

GoString(content) == content

GoBytes(text) == text

\* filepath.Base of a path given as its components.
Base(path) == IF Len(path) = 0 THEN "." ELSE path[Len(path)]

\* d.GetOk: the value, and whether it is set to something other than zero.
GetOk(d, key) ==
    /\ key \in DOMAIN d.attrs
    /\ d.attrs[key] # <<>>

ParseTags(d) == d.attrs["tags"]

(***************************************************************************)
(* resource_item_identity.go                                               *)
(***************************************************************************)
IdentityGroups ==
    << [Name |-> "identification", Selector |-> "name",
        Fields |-> [firstname |-> <<"firstname">>, initial |-> <<"initial">>,
                    lastname |-> <<"lastname">>, sex |-> <<"sex">>,
                    birth_date |-> <<"birthdate">>, occupation |-> <<"occupation">>,
                    company |-> <<"company">>, department |-> <<"department">>,
                    job_title |-> <<"jobtitle">>]],
       [Name |-> "address", Selector |-> "address",
        Fields |-> [address |-> <<"address">>, default_phone |-> <<"defphone">>,
                    home_phone |-> <<"homephone">>, cell_phone |-> <<"cellphone">>,
                    business_phone |-> <<"busphone">>]],
       [Name |-> "internet", Selector |-> "internet",
        Fields |-> [username |-> <<"username">>, email |-> <<"email">>]] >>

\* resourceItemIdentityRead setting the ID before the template is checked.
resourceItemIdentityReadEarlyId(d, o, fails) ==
    LET vaultID == d.attrs["vault"]
        r == ReadItem(getID(d), vaultID, o)
        v == r.item
        d0 == SetId(d, v.UUID)
        s1 == Set(d0, "name", v.Overview.Title, fails)
        s2 == Set(s1.d, "tags", v.Overview.Tags, fails)
        s3 == Set(s2.d, "vault", v.Vault, fails)
        s4 == Set(s3.d, "notes", v.Details.Notes, fails)
        s5 == parseSectionFromSchema(v.Details.Sections, s4.d, IdentityGroups, fails)
        s6 == Set(s5.d, "archived", v.Trashed = IsTrashed, fails)
        Out(dd, diag, failed) ==
            [d |-> dd, diag |-> diag, events |-> r.events, failed |-> failed]
    IN  IF r.err # Nil THEN Out(d, r.err, <<"ReadItem">>)
        ELSE IF v = NoItem THEN Out(SetId(d, ""), Nil, <<>>)
        ELSE IF v.Template # Category2Template(IdentityCategory)
        THEN Out(d0, "item is not from Identity", <<"template">>)
        ELSE IF s1.err # Nil THEN Out(s1.d, s1.err, <<"name">>)
        ELSE IF s2.err # Nil THEN Out(s2.d, s2.err, <<"tags">>)
        ELSE IF s3.err # Nil THEN Out(s3.d, s3.err, <<"vault">>)
        ELSE IF s4.err # Nil THEN Out(s4.d, s4.err, <<"notes">>)
        ELSE IF s5.err # Nil THEN Out(s5.d, s5.err, <<"sections">>)
        ELSE Out(s6.d, Nil, IF s6.err # Nil THEN <<"archived">> ELSE <<>>)

resourceItemIdentityRead(d, o, fails) ==
    LET vaultID == d.attrs["vault"]
        r == ReadItem(getID(d), vaultID, o)
        v == r.item
        d0 == SetId(d, v.UUID)
        s1 == Set(d0, "name", v.Overview.Title, fails)
        s2 == Set(s1.d, "tags", v.Overview.Tags, fails)
        s3 == Set(s2.d, "vault", v.Vault, fails)
        s4 == Set(s3.d, "notes", v.Details.Notes, fails)
        s5 == parseSectionFromSchema(v.Details.Sections, s4.d, IdentityGroups, fails)
        s6 == Set(s5.d, "archived", v.Trashed = IsTrashed, fails)
        Out(dd, diag, failed) ==
            [d |-> dd, diag |-> diag, events |-> r.events, failed |-> failed]
    IN  IF r.err # Nil THEN Out(d, r.err, <<"ReadItem">>)
        ELSE IF v = NoItem THEN Out(SetId(d, ""), Nil, <<>>)
        ELSE IF v.Template # Category2Template(IdentityCategory)
        THEN Out(d, "item is not from Identity", <<"template">>)
        ELSE IF s1.err # Nil THEN Out(s1.d, s1.err, <<"name">>)
        ELSE IF s2.err # Nil THEN Out(s2.d, s2.err, <<"tags">>)
        ELSE IF s3.err # Nil THEN Out(s3.d, s3.err, <<"vault">>)
        ELSE IF s4.err # Nil THEN Out(s4.d, s4.err, <<"notes">>)
        ELSE IF s5.err # Nil THEN Out(s5.d, s5.err, <<"sections">>)
        ELSE \* line 263: the diagnostic is built and not returned
             Out(s6.d, Nil, IF s6.err # Nil THEN <<"archived">> ELSE <<>>)

\* The generic encoding of a group's freeform fields and of the freeform
\* sections: each configuration entry {name, <key>: value} becomes a field
\* of the kind its key stands for.
KeyType(key) ==
    CASE key = "sex" -> TypeSex
      [] key = "url" -> TypeURL
      [] key = "month_year" -> TypeMonthYear
      [] key = "card_type" -> TypeCard
      [] key = "totp" -> TypeConcealed
      [] OTHER -> key

ParseField(fl) ==
    LET key == CHOOSE k \in (DOMAIN fl) \ {"name"} : TRUE
    IN  [Type |-> KeyType(key), Text |-> fl["name"], Value |-> fl[key],
         N |-> IF key = "totp" THEN TotpPrefix \o <<fl["name"]>> ELSE <<>>,
         A |-> [guarded |-> ""], Inputs |-> <<>>]

ParseFields(group) ==
    [i \in 1..Len(group["field"]) |-> ParseField(group["field"][i])]

ParseSections(d) ==
    [i \in 1..Len(d.attrs["section"]) |->
        [Name |-> "", Title |-> d.attrs["section"][i]["name"],
         Fields |-> ParseFields(d.attrs["section"][i])]]

\* WellKnown taking the display text for the field-name key.
WellKnownTextKey(type, text, value, n, inputs) ==
    [Type |-> type, Text |-> text, Value |-> value, N |-> <<text>>,
     A |-> [guarded |-> "yes"], Inputs |-> inputs]

\* One well-known field of resourceItemIdentityCreate's literal.
WellKnown(type, text, value, n, inputs) ==
    [Type |-> type, Text |-> text, Value |-> value, N |-> n,
     A |-> [guarded |-> "yes"], Inputs |-> inputs]

Words == << <<"autocapitalization", "Words">> >>
Sentences == << <<"autocapitalization", "Sentences">> >>
EmailKeyboard == << <<"keyboard", "EmailAddress">> >>

\* Lines 277-473: the sections of the item built from the configuration.
IdentitySections(main, address, internet, d) ==
    << [Title |-> main["title"], Name |-> "name",
        Fields |->
          << WellKnown("string", "firstname", main["firstname"], <<"firstname">>, Words),
             WellKnown("string", "initial", main["initial"], <<"initial">>, Words),
             WellKnown("string", "lastname", main["lastname"], <<"lastname">>, Words),
             WellKnown("menu", "sex", main["sex"], <<"sex">>, <<>>),
             WellKnown("date", "birth date", main["birth_date"], <<"birthdate">>, <<>>),
             WellKnown("string", "occupation", main["occupation"], <<"occupation">>, Words),
             WellKnown("string", "company", main["company"], <<"company">>, Words),
             WellKnown("string", "department", main["department"], <<"department">>, Words),
             WellKnown("string", "job title", main["job_title"], <<"jobtitle">>, Words) >>
          \o ParseFields(main)],
       [Title |-> address["title"], Name |-> "address",
        Fields |->
          << WellKnown("address", "address", address["address"], <<"address">>, Sentences),
             WellKnown("phone", "default phone", address["default_phone"], <<"defphone">>, <<>>),
             WellKnown("phone", "home", address["home_phone"], <<"homephone">>, <<>>),
             WellKnown("phone", "cell", address["cell_phone"], <<"cellphone">>, <<>>),
             WellKnown("phone", "business", address["business_phone"], <<"busphone">>, <<>>) >>
          \o ParseFields(address)],
       [Title |-> internet["title"], Name |-> "internet",
        Fields |->
          << WellKnown("string", "username", internet["username"], <<"username">>, Sentences),
             WellKnown("string", "email", internet["email"], <<"email">>, EmailKeyboard) >>
          \o ParseFields(internet)] >>
    \o ParseSections(d)

\* The outcome of a handler that aborted (a Go panic): no diagnostics are
\* returned and the record is whatever it was.
Panic(d, events) ==
    [d |-> d, diag |-> "panic", events |-> events, failed |-> <<"panic">>]

resourceItemIdentityCreate(d, oCreate, oRead, fails) ==
    LET present == /\ Len(d.attrs["identification"]) > 0
                   /\ Len(d.attrs["address"]) > 0
                   /\ Len(d.attrs["internet"]) > 0
        main == d.attrs["identification"][1]
        address == d.attrs["address"][1]
        internet == d.attrs["internet"][1]
        item == [UUID |-> "",
                 Template |-> Category2Template(IdentityCategory),
                 Vault |-> d.attrs["vault"],
                 Overview |-> [Title |-> d.attrs["name"], URL |-> "",
                               Tags |-> ParseTags(d)],
                 Details |-> [Notes |-> d.attrs["notes"],
                              Sections |-> IdentitySections(main, address, internet, d),
                              DocumentAttributes |-> NoItem],
                 Trashed |-> ""]
        c == CreateItem(item, oCreate)
        rd == resourceItemIdentityRead(SetId(d, c.v.UUID), oRead, fails)
    IN  IF ~present THEN Panic(d, <<>>)
        ELSE IF c.err # Nil
        THEN [d |-> d, diag |-> c.err, events |-> c.events, failed |-> <<"CreateItem">>]
        ELSE [rd EXCEPT !.events = c.events \o rd.events]

(***************************************************************************)
(* resource_item_document.go                                               *)
(***************************************************************************)
resourceItemDocumentRead(d, o, oDoc, fails) ==
    LET vaultID == d.attrs["vault"]
        r == ReadItem(getID(d), vaultID, o)
        v == r.item
        d0 == SetId(d, v.UUID)
        s1 == Set(d0, "name", v.Overview.Title, fails)
        s2 == Set(s1.d, "tags", v.Overview.Tags, fails)
        s3 == Set(s2.d, "vault", v.Vault, fails)
        s4 == Set(s3.d, "filename", v.Details.DocumentAttributes.FileName, fails)
        s5 == Set(s4.d, "archived", v.Trashed = IsTrashed, fails)
        dropped == IF s5.err # Nil THEN <<"archived">> ELSE <<>>
        c == ReadDocument(v.UUID, oDoc)
        s6 == Set(s5.d, "content", GoString(c.content), fails)
        s7 == Set(s6.d, "content_base64", B64Encode(c.content), fails)
        Out(dd, diag, ev, failed) ==
            [d |-> dd, diag |-> diag, events |-> ev, failed |-> failed]
    IN  IF r.err # Nil THEN Out(d, r.err, r.events, <<"ReadItem">>)
        ELSE IF v = NoItem THEN Out(SetId(d, ""), Nil, r.events, <<>>)
        ELSE IF v.Template # Category2Template(DocumentCategory)
        THEN Out(d, "item is not from Document", r.events, <<"template">>)
        ELSE IF s1.err # Nil THEN Out(s1.d, s1.err, r.events, <<"name">>)
        ELSE IF s2.err # Nil THEN Out(s2.d, s2.err, r.events, <<"tags">>)
        ELSE IF s3.err # Nil THEN Out(s3.d, s3.err, r.events, <<"vault">>)
        ELSE IF s4.err # Nil THEN Out(s4.d, s4.err, r.events, <<"filename">>)
        ELSE \* line 117: the diagnostic is built and not returned
        IF c.err # Nil
        THEN Out(s5.d, c.err, r.events \o c.events, Append(dropped, "ReadDocument"))
        ELSE IF s6.err # Nil
        THEN Out(s6.d, s6.err, r.events \o c.events, Append(dropped, "content"))
        ELSE IF s7.err # Nil
        THEN Out(s7.d, s7.err, r.events \o c.events, Append(dropped, "content_base64"))
        ELSE Out(s7.d, Nil, r.events \o c.events, dropped)

\* resourceItemDocumentCreate passing the content_base64 text on as the
\* document's bytes, without decoding it.
resourceItemDocumentCreateNoDecode(d, file, oCreate, oRead, oDoc, fails) ==
    LET byPath == GetOk(d, "file_path")
        byB64 == ~byPath /\ GetOk(d, "content_base64")
        filename == IF byPath THEN Base(d.attrs["file_path"]) ELSE d.attrs["filename"]
        fileContent == IF byPath THEN file.bytes
                       ELSE IF byB64 THEN GoBytes(d.attrs["content_base64"])
                       ELSE GoBytes(d.attrs["content"])
        item == [UUID |-> "",
                 Template |-> Category2Template(DocumentCategory),
                 Vault |-> d.attrs["vault"],
                 Overview |-> [Title |-> d.attrs["name"], URL |-> "",
                               Tags |-> ParseTags(d)],
                 Details |-> [Notes |-> "", Sections |-> <<>>,
                              DocumentAttributes |-> [FileName |-> filename]],
                 Trashed |-> ""]
        c == CreateDocument(item, fileContent, oCreate)
        rd == resourceItemDocumentRead(SetId(d, c.v.UUID), oRead, oDoc, fails)
    IN  IF byPath /\ file.err # Nil
        THEN [d |-> d, diag |-> file.err, events |-> <<>>, failed |-> <<"ReadFile">>]
        ELSE IF c.err # Nil
        THEN [d |-> d, diag |-> c.err, events |-> c.events,
              failed |-> <<"CreateDocument">>]
        ELSE [rd EXCEPT !.events = c.events \o rd.events]

\* file: what ioutil.ReadFile returns for the path, [err, bytes].
resourceItemDocumentCreate(d, file, oCreate, oRead, oDoc, fails) ==
    LET byPath == GetOk(d, "file_path")
        byB64 == ~byPath /\ GetOk(d, "content_base64")
        dec == B64Decode(d.attrs["content_base64"])
        filename == IF byPath THEN Base(d.attrs["file_path"]) ELSE d.attrs["filename"]
        fileContent == IF byPath THEN file.bytes
                       ELSE IF byB64 THEN dec.bytes
                       ELSE GoBytes(d.attrs["content"])
        item == [UUID |-> "",
                 Template |-> Category2Template(DocumentCategory),
                 Vault |-> d.attrs["vault"],
                 Overview |-> [Title |-> d.attrs["name"], URL |-> "",
                               Tags |-> ParseTags(d)],
                 Details |-> [Notes |-> "", Sections |-> <<>>,
                              DocumentAttributes |-> [FileName |-> filename]],
                 Trashed |-> ""]
        c == CreateDocument(item, fileContent, oCreate)
        rd == resourceItemDocumentRead(SetId(d, c.v.UUID), oRead, oDoc, fails)
    IN  IF byPath /\ file.err # Nil
        THEN [d |-> d, diag |-> file.err, events |-> <<>>, failed |-> <<"ReadFile">>]
        ELSE IF byB64 /\ dec.err # Nil
        THEN [d |-> d, diag |-> dec.err, events |-> <<>>, failed |-> <<"DecodeString">>]
        ELSE IF c.err # Nil
        THEN [d |-> d, diag |-> c.err, events |-> c.events,
              failed |-> <<"CreateDocument">>]
        ELSE [rd EXCEPT !.events = c.events \o rd.events]

\* item.go, lines 338-346.
resourceItemDelete(d, o) ==
    LET r == DeleteItem(getID(d), o)
    IN  IF r.err = Nil
        THEN [d |-> SetId(d, ""), diag |-> Nil, events |-> r.events, failed |-> <<>>]
        ELSE [d |-> d, diag |-> r.err, events |-> r.events, failed |-> <<"DeleteItem">>]

(***************************************************************************)
(* Inputs: what the vault CLI can answer and what the framework can pass.  *)
(***************************************************************************)
OutputTexts ==
    { <<"u0", "isn't", "an", "item", "in", "any", "vault">>,
      <<"The", "requested", "resource", "was", "not", "found">>,
      <<"the", "resource", "was", "not", "found">>,
      <<"not", "signed", "in">>,
      <<>> }

ExitCodes == {1, 2, 4}

Exit(code, words) ==
    [status |-> "exit", code |-> code, words |-> words, obj |-> Garbage, bytes |-> <<>>]

\* The binary could not be started or waited for: no exit code.
NotRun ==
    [status |-> "fail", code |-> 0, words |-> <<>>, obj |-> Garbage, bytes |-> <<>>]

Ok(obj, bytes) ==
    [status |-> "ok", code |-> 0, words |-> <<>>, obj |-> obj, bytes |-> bytes]

FailOutcomes == {Exit(c, w) : c \in ExitCodes, w \in OutputTexts} \cup {NotRun}

Plain(type, text, value, n) ==
    [Type |-> type, Text |-> text, Value |-> value, N |-> n,
     A |-> [guarded |-> ""], Inputs |-> <<>>]

SampleSectionLists ==
    { <<>>,
      << [Name |-> "name", Title |-> "Identification",
          Fields |-> << Plain(TypeString, "firstname", "Ada", <<"firstname">>),
                        Plain(TypeConcealed, "otp", "123", <<"TOTP_", "1">>) >>],
         [Name |-> "misc", Title |-> "Misc",
          Fields |-> << Plain(TypeConcealed, "note", "s3", <<"note">>) >>] >> }

SampleTemplates == {"004", "006", "999"}

SampleItem(t, trashed, sections) ==
    [UUID |-> "u1", Template |-> t, Vault |-> "v1",
     Overview |-> [Title |-> "t1", URL |-> "", Tags |-> <<"a">>],
     Details |-> [Notes |-> "n1", Sections |-> sections,
                  DocumentAttributes |-> [FileName |-> "f1"]],
     Trashed |-> trashed]

SampleItems ==
    {SampleItem(t, tr, ss) :
        t \in SampleTemplates, tr \in {"Y", "N"}, ss \in SampleSectionLists}

ReadOutcomes ==
    FailOutcomes \cup {Ok(Garbage, <<>>)} \cup {Ok(i, <<>>) : i \in SampleItems}

\* The answers the handlers are run against: a hard error, both soft misses,
\* output that is no item, and every sample item.
HandlerReadOutcomes ==
    { Exit(1, <<"not", "signed", "in">>),
      Exit(1, <<"u0", "isn't", "an", "item", "in", "any", "vault">>),
      Exit(4, <<"The", "requested", "resource", "was", "not", "found">>),
      NotRun, Ok(Garbage, <<>>) }
    \cup {Ok(i, <<>>) : i \in SampleItems}

\* The answers to the read that follows a create in the create handlers.
ReadBackOutcomes ==
    { Exit(1, <<"not", "signed", "in">>),
      Exit(4, <<"The", "requested", "resource", "was", "not", "found">>),
      Ok(SampleItem("004", "N", <<>>), <<>>),
      Ok(SampleItem("006", "Y", <<>>), <<>>) }

ReadBackDocOutcomes ==
    { Ok(Garbage, <<>>), Ok(Garbage, <<77>>), Ok(Garbage, <<77, 97>>),
      Ok(Garbage, <<77, 97, 110, 255>>), Exit(1, <<"not", "signed", "in">>) }

CreateOutcomes ==
    { Ok([uuid |-> "u1"], <<>>), Ok(Garbage, <<>>),
      Exit(1, <<"not", "signed", "in">>), NotRun }

SampleBytes == { <<>>, <<77>>, <<77, 97>>, <<77, 97, 110, 255>> }

DocOutcomes ==
    {Ok(Garbage, b) : b \in SampleBytes} \cup {Exit(1, <<"not", "signed", "in">>)}

VaultOutcomes ==
    { Ok([UUID |-> "v1", Name |-> "n1"], <<>>), Ok(Garbage, <<>>),
      Exit(1, <<"not", "signed", "in">>), NotRun }

AllTemplates ==
    { "001", "002", "003", "004", "005", "006", "010", "100", "101", "102",
      "103", "104", "105", "106", "107", "108", "109", "111",
      "000", "999", "" }

CreateItems ==
    { [UUID |-> id, Template |-> t, Vault |-> vlt,
       Overview |-> [Title |-> ttl, URL |-> url, Tags |-> tags],
       Details |-> [Notes |-> "", Sections |-> <<>>, DocumentAttributes |-> NoItem],
       Trashed |-> ""] :
        id \in {"", "u0"}, t \in AllTemplates, vlt \in {"", "v1"}, ttl \in {"", "t1"},
        url \in {"", "example.com"}, tags \in {<<>>, <<"a", "b">>, <<"">>} }

DocumentItems ==
    { [UUID |-> "", Template |-> "006", Vault |-> vlt,
       Overview |-> [Title |-> "t1", URL |-> "", Tags |-> tags],
       Details |-> [Notes |-> "", Sections |-> <<>>,
                    DocumentAttributes |-> [FileName |-> "f1"]],
       Trashed |-> ""] :
        vlt \in {"", "v1"}, tags \in {<<>>, <<"a", "b">>} }

\* The sets of attributes whose set step the framework rejects.
FailSets(keys) == {S \in SUBSET keys : Cardinality(S) <= MaxFails}

IdentityKeys ==
    {"name", "tags", "vault", "notes", "identification", "address", "internet",
     "section", "archived"}

DocumentKeys ==
    {"name", "tags", "vault", "filename", "archived", "content", "content_base64"}

IdentityRecord(id, vlt) ==
    [id |-> id, log |-> <<>>,
     attrs |-> [name |-> "t0", tags |-> <<>>, vault |-> vlt, notes |-> "",
                identification |-> <<>>, address |-> <<>>, internet |-> <<>>,
                section |-> <<>>, archived |-> FALSE]]

DocumentRecord(id, vlt) ==
    [id |-> id, log |-> <<>>,
     attrs |-> [name |-> "t0", tags |-> <<>>, vault |-> vlt, file_path |-> <<>>,
                content |-> <<>>, content_base64 |-> <<>>, filename |-> "",
                archived |-> FALSE]]

MainKeys ==
    {"firstname", "initial", "lastname", "sex", "birth_date", "occupation",
     "company", "department", "job_title"}

AddressKeys ==
    {"address", "default_phone", "home_phone", "cell_phone", "business_phone"}

InternetKeys == {"username", "email"}

\* One entry of a group attribute: its well-known attributes (f), its title
\* and its freeform fields.
GroupEntry(f, title, extras) == Put(Put(f, "title", title), "field", extras)

SampleExtras ==
    { <<>>,
      << [name |-> "nickname", string |-> "Countess"],
         [name |-> "otp", totp |-> "123"] >> }

SampleFreeSections ==
    { <<>>,
      << [name |-> "Misc", field |-> << [name |-> "note", concealed |-> "s3"] >>] >> }

\* A group is declared (one entry) or left out (the empty list).
GroupChoices(keys, title, extras) ==
    { <<>> } \cup { <<GroupEntry([k \in keys |-> k], title, e)>> : e \in extras }

IdentityCreateRecords ==
    { [id |-> "", log |-> <<>>,
       attrs |-> [name |-> "t1", tags |-> <<"a">>, vault |-> "v1", notes |-> "n1",
                  identification |-> m, address |-> a, internet |-> i,
                  section |-> fs, archived |-> FALSE]] :
        m \in GroupChoices(MainKeys, "Identification", SampleExtras),
        a \in GroupChoices(AddressKeys, "Address", {<<>>}),
        i \in GroupChoices(InternetKeys, "Internet Details", {<<>>}),
        fs \in SampleFreeSections }

DocumentCreateRecords ==
    { [id |-> "", log |-> <<>>,
       attrs |-> [name |-> "t1", tags |-> <<"a">>, vault |-> "v1",
                  file_path |-> src[1], content_base64 |-> src[2], content |-> src[3],
                  filename |-> src[4], archived |-> FALSE]] :
        src \in { << <<"tmp", "f.txt">>, <<>>, <<>>, "" >>,
                  << <<>>, B64Encode(<<77, 97>>), <<>>, "f1" >>,
                  << <<>>, B64Encode(<<77>>), <<>>, "f1" >>,
                  << <<>>, B64Encode(<<77, 97, 110, 255>>), <<>>, "f1" >>,
                  << <<>>, <<19, 22, 65, 64>>, <<>>, "f1" >>,
                  << <<>>, <<>>, <<77, 97>>, "f1" >>,
                  << <<>>, <<>>, <<>>, "f1" >> } }

FileOutcomes ==
    { [err |-> Nil, bytes |-> <<77, 97, 110, 255>>],
      [err |-> "no such file", bytes |-> <<>>] }

(***************************************************************************)
(* The specification.  The framework invokes one operation at a time; the  *)
(* operation runs to its return in one step, and the framework takes the   *)
(* result.  No state is kept between operations.                           *)
(***************************************************************************)
NoCall == [op |-> "none"]
NoRet == [err |-> Nil]

Init ==
    /\ pc = "idle"
    /\ call = NoCall
    /\ ret = NoRet
    /\ procs = <<>>

Returned(c, r, events) ==
    /\ pc' = "returned"
    /\ call' = c
    /\ ret' = r
    /\ procs' = events

DoReadItem ==
    /\ pc = "idle"
    /\ \E id \in {"u0"}, vaultID \in {"", "v1"}, o \in ReadOutcomes :
         LET r == ReadItem(id, vaultID, o)
         IN  Returned([op |-> "ReadItem", id |-> id, vaultID |-> vaultID, o |-> o],
                      [err |-> r.err, item |-> r.item], r.events)

DoCreateItem ==
    /\ pc = "idle"
    /\ \E v \in CreateItems, o \in CreateOutcomes :
         LET r == CreateItem(v, o)
         IN  Returned([op |-> "CreateItem", v |-> v, o |-> o],
                      [err |-> r.err, v |-> r.v], r.events)

DoReadDocument ==
    /\ pc = "idle"
    /\ \E id \in {"u1"}, o \in DocOutcomes :
         LET r == ReadDocument(id, o)
         IN  Returned([op |-> "ReadDocument", id |-> id, o |-> o],
                      [err |-> r.err, content |-> r.content], r.events)

DoCreateDocument ==
    /\ pc = "idle"
    /\ \E v \in DocumentItems, content \in SampleBytes, o \in CreateOutcomes :
         LET r == CreateDocument(v, content, o)
         IN  Returned([op |-> "CreateDocument", v |-> v, content |-> content, o |-> o],
                      [err |-> r.err, v |-> r.v], r.events)

DoReadVault ==
    /\ pc = "idle"
    /\ \E id \in {"v1"}, o \in VaultOutcomes :
         LET r == ReadVault(id, o)
         IN  Returned([op |-> "ReadVault", id |-> id, o |-> o],
                      [err |-> r.err, vault |-> r.vault], r.events)

DoCreateVault ==
    /\ pc = "idle"
    /\ \E v \in {[UUID |-> "", Name |-> "n1"]}, o \in VaultOutcomes :
         LET r == CreateVault(v, o)
         IN  Returned([op |-> "CreateVault", v |-> v, o |-> o],
                      [err |-> r.err, vault |-> r.vault], r.events)

Handled(c, r) ==
    Returned(c, [err |-> r.diag, d |-> r.d, failed |-> r.failed], r.events)

IdentityRead ==
    /\ pc = "idle"
    /\ \E d \in {IdentityRecord("u0", vlt) : vlt \in {"", "v1"}},
          o \in HandlerReadOutcomes, fails \in FailSets(IdentityKeys) :
         Handled([op |-> "IdentityRead", d |-> d, o |-> o, fails |-> fails],
                 resourceItemIdentityRead(d, o, fails))

IdentityCreate ==
    /\ pc = "idle"
    /\ \E d \in IdentityCreateRecords, oCreate \in CreateOutcomes,
          o \in ReadBackOutcomes, fails \in FailSets(IdentityKeys) :
         Handled([op |-> "IdentityCreate", d |-> d, oCreate |-> oCreate, o |-> o,
                  fails |-> fails],
                 resourceItemIdentityCreate(d, oCreate, o, fails))

DocumentRead ==
    /\ pc = "idle"
    /\ \E d \in {DocumentRecord("u0", vlt) : vlt \in {"", "v1"}},
          o \in HandlerReadOutcomes, oDoc \in DocOutcomes,
          fails \in FailSets(DocumentKeys) :
         Handled([op |-> "DocumentRead", d |-> d, o |-> o, oDoc |-> oDoc,
                  fails |-> fails],
                 resourceItemDocumentRead(d, o, oDoc, fails))

DocumentCreate ==
    /\ pc = "idle"
    /\ \E d \in DocumentCreateRecords, file \in FileOutcomes,
          oCreate \in CreateOutcomes, o \in ReadBackOutcomes,
          oDoc \in ReadBackDocOutcomes, fails \in FailSets(DocumentKeys) :
         Handled([op |-> "DocumentCreate", d |-> d, file |-> file,
                  oCreate |-> oCreate, o |-> o, oDoc |-> oDoc, fails |-> fails],
                 resourceItemDocumentCreate(d, file, oCreate, o, oDoc, fails))

ItemDelete ==
    /\ pc = "idle"
    /\ \E d \in {IdentityRecord("u1", "v1"), DocumentRecord("u1", "")},
          o \in FailOutcomes \cup {Ok(Garbage, <<>>)} :
         Handled([op |-> "ItemDelete", d |-> d, o |-> o], resourceItemDelete(d, o))

\* The framework takes the result; nothing of the call is kept.
Return ==
    /\ pc = "returned"
    /\ pc' = "idle"
    /\ call' = NoCall
    /\ ret' = NoRet
    /\ procs' = <<>>

Next ==
    \/ DoReadItem
    \/ DoCreateItem
    \/ DoReadDocument
    \/ DoCreateDocument
    \/ DoReadVault
    \/ DoCreateVault
    \/ IdentityRead
    \/ IdentityCreate
    \/ DocumentRead
    \/ DocumentCreate
    \/ ItemDelete
    \/ Return

Spec == Init /\ [][Next]_vars

(***************************************************************************)
(* The pure functions on their own: parseSectionFromSchema applied to      *)
(* section lists and group lists drawn from samples, the encoding of       *)
(* resourceItemIdentityCreate followed by the decoding of                  *)
(* resourceItemIdentityRead, and the two directions of the registry.       *)
(***************************************************************************)
SeqsUpTo(S, n) == UNION {[1..m -> S] : m \in 0..n}

CodecSections ==
    { [Name |-> "name", Title |-> "Identification",
       Fields |-> << Plain(TypeString, "firstname", "Ada", <<"firstname">>),
                     Plain(TypeSex, "sex", "female", <<"sex">>),
                     Plain(TypeConcealed, "otp", "123", <<"TOTP_", "1">>) >>],
      [Name |-> "name", Title |-> "Second",
       Fields |-> << Plain(TypeString, "firstname", "Bob", <<"firstname">>),
                     Plain(TypeString, "first name", "Rob", <<"firstname">>) >>],
      [Name |-> "address", Title |-> "Address",
       Fields |-> << Plain(TypePhone, "default phone", "555", <<"defphone">>),
                     Plain(TypeURL, "web", "example.com", <<"web">>) >>],
      [Name |-> "misc", Title |-> "Misc",
       Fields |-> << Plain(TypeConcealed, "otp", "123", <<"TOTP_", "1">>),
                     Plain(TypeConcealed, "note", "s3", <<"note">>),
                     Plain(TypeConcealed, "pin", "0000", <<"X", "TOTP_">>),
                     Plain(TypeSex, "gender", "female", <<"g">>),
                     Plain(TypeURL, "site", "example.com", <<"u">>),
                     Plain(TypeMonthYear, "expires", "202601", <<"e">>),
                     Plain(TypeCard, "card", "visa", <<"c">>),
                     Plain(TypeString, "nickname", "Countess", <<"nickname">>),
                     Plain(TypeAddress, "home", "street", <<"a">>),
                     Plain(TypeEmail, "mail", "a@b", <<"m">>),
                     Plain(TypeDate, "born", "1815", <<"d">>),
                     Plain(TypePhone, "cell", "555", <<"p">>),
                     Plain(TypeReference, "ref", "u9", <<"r">>),
                     Plain("gender", "other kind", "x", <<"o">>) >>],
      [Name |-> "Name", Title |-> "Empty", Fields |-> <<>>] }

CodecGroups ==
    { [Name |-> "identification", Selector |-> "name",
       Fields |-> [firstname |-> <<"firstname">>, sex |-> <<"sex">>]],
      [Name |-> "alias", Selector |-> "name",
       Fields |-> [nick |-> <<"firstname">>]],
      [Name |-> "address", Selector |-> "address",
       Fields |-> [default_phone |-> <<"defphone">>]] }

CodecKeys == {"identification", "alias", "address", "section"}

EmptyRecord == [id |-> "", log |-> <<>>, attrs |-> [section |-> <<>>]]

Vals == {"", "x"}

\* The configurations of the round trip: every group declared; the
\* well-known attributes of one group take every combination of values.
RoundTripRecords ==
    LET rec(m, a, i) ==
            [id |-> "", log |-> <<>>,
             attrs |-> [name |-> "t1", tags |-> <<"a">>, vault |-> "v1", notes |-> "n1",
                        identification |-> <<m>>, address |-> <<a>>, internet |-> <<i>>,
                        section |-> <<>>, archived |-> FALSE]]
        m0 == GroupEntry([k \in MainKeys |-> k], "Identification", <<>>)
        a0 == GroupEntry([k \in AddressKeys |-> k], "Address", <<>>)
        i0 == GroupEntry([k \in InternetKeys |-> k], "Internet Details", <<>>)
    IN  {rec(GroupEntry(f, t, e), a0, i0) :
            f \in [MainKeys -> Vals], t \in {"Identification", "Me"}, e \in SampleExtras}
        \cup {rec(m0, GroupEntry(f, t, e), i0) :
            f \in [AddressKeys -> Vals], t \in {"Address", ""}, e \in SampleExtras}
        \cup {rec(m0, a0, GroupEntry(f, t, e)) :
            f \in [InternetKeys -> Vals], t \in {"Internet Details", "Net"},
            e \in SampleExtras}

\* The categories item.go declares, less UnknownCategory.
RegisteredCategories ==
    { LoginCategory, IdentityCategory, DatabaseCategory, MembershipCategory,
      WirelessRouterCategory, SecureNoteCategory, SoftwareLicenseCategory,
      CreditCardCategory, DriverLicenseCategory, OutdoorLicenseCategory,
      PassportCategory, EmailAccountCategory, PasswordCategory,
      RewardProgramCategory, SocialSecurityNumberCategory, BankAccountCategory,
      DocumentCategory, ServerCategory }

\* A Category is a string: any string can be passed.
SampleCategories == RegisteredCategories \cup {UnknownCategory, "Gift Card", ""}

InitCodec ==
    /\ pc = "input"
    /\ \/ \E ss \in SeqsUpTo(CodecSections, MaxSections),
             gs \in SeqsUpTo(CodecGroups, MaxGroups) \cup {IdentityGroups},
             fails \in FailSets(CodecKeys) :
            call = [op |-> "parseSectionFromSchema", sections |-> ss, groups |-> gs,
                    fails |-> fails]
       \/ \E d \in RoundTripRecords : call = [op |-> "RoundTrip", d |-> d]
       \/ \E c \in SampleCategories, c2 \in SampleCategories :
            call = [op |-> "Category2Template", c |-> c, c2 |-> c2]
       \/ \E t \in AllTemplates : call = [op |-> "Template2Category", t |-> t]
    /\ ret = NoRet
    /\ procs = <<>>

DecodeSections ==
    /\ pc = "input"
    /\ call.op = "parseSectionFromSchema"
    /\ LET r == parseSectionFromSchema(call.sections, EmptyRecord, call.groups,
                                       call.fails)
       IN  ret' = [err |-> r.err, d |-> r.d]
    /\ pc' = "returned"
    /\ UNCHANGED <<call, procs>>

EncodeDecode ==
    /\ pc = "input"
    /\ call.op = "RoundTrip"
    /\ LET sections == IdentitySections(call.d.attrs["identification"][1],
                                        call.d.attrs["address"][1],
                                        call.d.attrs["internet"][1], call.d)
           r == parseSectionFromSchema(sections, EmptyRecord, IdentityGroups, {})
       IN  ret' = [err |-> r.err, d |-> r.d, sections |-> sections]
    /\ pc' = "returned"
    /\ UNCHANGED <<call, procs>>

\* Category2Template of two categories, and the first one's template
\* converted back.
CategoryRoundTrip ==
    /\ pc = "input"
    /\ call.op = "Category2Template"
    /\ ret' = [err |-> Nil, t |-> Category2Template(call.c),
               t2 |-> Category2Template(call.c2),
               back |-> Template2Category(Category2Template(call.c))]
    /\ pc' = "returned"
    /\ UNCHANGED <<call, procs>>

\* Template2Category of a template identifier, and the category converted back.
TemplateRoundTrip ==
    /\ pc = "input"
    /\ call.op = "Template2Category"
    /\ ret' = [err |-> Nil, c |-> Template2Category(call.t),
               back |-> Category2Template(Template2Category(call.t))]
    /\ pc' = "returned"
    /\ UNCHANGED <<call, procs>>

NextCodec ==
    \/ DecodeSections
    \/ EncodeDecode
    \/ CategoryRoundTrip
    \/ TemplateRoundTrip

SpecCodec == InitCodec /\ [][NextCodec]_vars

(***************************************************************************)
(* Properties.                                                             *)
(***************************************************************************)
ReadItemFailed ==
    pc = "returned" /\ call.op = "ReadItem" /\ call.o.status # "ok"

\* The miss condition as a statement about the run: exit code 1 with the
\* "isn't an item in" phrase, or exit code 4 with the given phrase.
MissCondition(o, phrase) ==
    /\ o.status = "exit"
    /\ \/ (o.code = 1 /\ Contains(o.words, <<"isn't", "an", "item", "in">>))
       \/ (o.code = 4 /\ Contains(o.words, phrase))

SoftMissOrHardError(phrase) ==
    ReadItemFailed =>
        IF MissCondition(call.o, phrase)
        THEN ret.item = NoItem /\ ret.err = Nil
        ELSE ret.item = NoItem /\ ret.err # Nil

\* C1, as stated: a failed run with exit code 1 and "isn't an item in" in the
\* output, or exit code 4 and "resource was not found" in the output, makes
\* ReadItem return no item and no error; every other failed run makes it
\* return a hard error and no item.
C1_SoftMissShortPhrase ==
    SoftMissOrHardError(<<"resource", "was", "not", "found">>)

\* C1, as amended: the phrase looked for with exit code 4 is the whole
\* sentence "The requested resource was not found"; output that holds only
\* "resource was not found" is a hard error.
C1_SoftMiss ==
    SoftMissOrHardError(<<"The", "requested", "resource", "was", "not", "found">>)

C1_Witness ==
    /\ ReadItemFailed
    /\ call.o.code = 4
    /\ call.o.words = <<"The", "requested", "resource", "was", "not", "found">>
    /\ ret.item = NoItem
    /\ ret.err = Nil

ReadHandlerReturned ==
    pc = "returned" /\ call.op \in {"IdentityRead", "DocumentRead"}

\* ReadItem handed the handler an item: the run succeeded and its output
\* is an item.
GotItem == call.o.status = "ok" /\ call.o.obj # Garbage

ExpectedTemplate == IF call.op = "IdentityRead" THEN "004" ELSE "006"

\* C2: when ReadItem returns an item whose template identifier is not the
\* one of the handler's category ("004" for identity, "006" for document),
\* the read handler returns an error diagnostic.
C2_WrongKindFails ==
    (ReadHandlerReturned /\ GotItem /\ call.o.obj.Template # ExpectedTemplate)
        => ret.err # Nil

C2_Witness ==
    /\ ReadHandlerReturned
    /\ call.op = "IdentityRead"
    /\ GotItem
    /\ call.o.obj.Template = "999"
    /\ call.fails = {}
    /\ ret.err # Nil

CreateReturned ==
    pc = "returned" /\ call.op \in {"CreateItem", "CreateDocument"}

\* C3: when CreateItem or CreateDocument returns no error, the item's UUID
\* is the identifier extracted from the result payload; when the process
\* exits successfully and no identifier can be extracted, the call returns
\* an error.
C3_UuidAssignedOrError ==
    CreateReturned =>
        /\ (ret.err = Nil =>
               /\ getResultID(call.o).err = Nil
               /\ ret.v.UUID = getResultID(call.o).id)
        /\ ((call.o.status = "ok" /\ getResultID(call.o).err # Nil) => ret.err # Nil)

RegisteredTemplates ==
    { "001", "002", "003", "004", "005", "006", "010", "100", "101", "102",
      "103", "104", "105", "106", "107", "108", "109", "111" }

\* C4: for an item whose template identifier is none of the 18 registered
\* ones, CreateItem returns an error, runs no process and leaves the UUID
\* as it was.
C4_UnknownTemplateRejected ==
    (pc = "returned" /\ call.op = "CreateItem"
        /\ call.v.Template \notin RegisteredTemplates)
        => /\ ret.err # Nil
           /\ procs = <<>>
           /\ ret.v.UUID = call.v.UUID

C4_Witness ==
    /\ pc = "returned"
    /\ call.op = "CreateItem"
    /\ call.v.Template = "999"
    /\ call.v.UUID = "u0"
    /\ call.o.status = "ok"
    /\ ret.err # Nil
    /\ ret.v.UUID = "u0"

\* A decoding in which the framework accepted every value.
DecodedCleanly ==
    pc = "returned" /\ call.op = "parseSectionFromSchema" /\ call.fails = {}

Matches(i, j) == call.sections[i].Name = call.groups[j].Selector

MatchedSections == {i \in 1..Len(call.sections) : \E j \in 1..Len(call.groups) : Matches(i, j)}

MatchingPairs ==
    {p \in (1..Len(call.sections)) \X (1..Len(call.groups)) : Matches(p[1], p[2])}

FirstMatch(i) ==
    CHOOSE j \in 1..Len(call.groups) :
        Matches(i, j) /\ \A k \in 1..(j - 1) : ~Matches(i, k)

\* The writes made to group attributes, in order.
GroupWrites ==
    LET IsGroupWrite(w) == w.key # "section"
    IN  SelectSeq(ret.d.log, IsGroupWrite)

WrittenFrom(i, j) ==
    \E n \in 1..Len(GroupWrites) :
        /\ GroupWrites[n].key = call.groups[j].Name
        /\ GroupWrites[n].value = <<GroupSource(call.sections[i], call.groups[j])>>

\* C5, as stated: each Section populates at most one group, the first group
\* in list order whose selector equals the Section's Name, also when two
\* groups share a selector.
C5_FirstMatchOnly ==
    DecodedCleanly =>
        /\ Len(GroupWrites) = Cardinality(MatchedSections)
        /\ \A i \in MatchedSections : WrittenFrom(i, FirstMatch(i))

\* C5, as amended: each Section populates every group whose selector equals
\* its Name, one write per matching group; only when no two groups share a
\* selector is that at most one group.
C5_EveryMatchingGroup ==
    DecodedCleanly =>
        /\ Len(GroupWrites) = Cardinality(MatchingPairs)
        /\ \A p \in MatchingPairs : WrittenFrom(p[1], p[2])

C5_Witness ==
    /\ DecodedCleanly
    /\ Len(call.sections) = 1
    /\ Len(call.groups) = 2
    /\ call.groups[1].Name # call.groups[2].Name
    /\ Matches(1, 1)
    /\ Matches(1, 2)
    /\ Len(GroupWrites) = 2

\* The generic mapping of a field kind to its configuration key.
GenericKey(field) ==
    IF field.Type = "menu" THEN "sex"
    ELSE IF field.Type = "URL" THEN "url"
    ELSE IF field.Type = "monthYear" THEN "month_year"
    ELSE IF field.Type = "cctype" THEN "card_type"
    ELSE IF field.Type = "concealed"
    THEN IF Len(field.N) > 0 /\ field.N[1] = "TOTP_" THEN "totp" ELSE "concealed"
    ELSE field.Type

GenericField(field) ==
    [k \in {"name", GenericKey(field)} |->
        IF k = "name" THEN field.Text ELSE field.Value]

GenericSection(section) ==
    [name |-> section.Title,
     field |-> [n \in 1..Len(section.Fields) |-> GenericField(section.Fields[n])]]

UnmatchedSections ==
    LET Unmatched(section) ==
            \A j \in 1..Len(call.groups) : section.Name # call.groups[j].Selector
    IN  SelectSeq(call.sections, Unmatched)

\* C6: after a decoding that returns no error, the generic "section" output
\* holds exactly the Sections whose Name equals no group selector, in their
\* order, each as {name: title, field: its fields}, each field as
\* {name: display text, key: value} with the key of the generic mapping.
C6_UnmatchedSectionsGeneric ==
    (pc = "returned" /\ call.op = "parseSectionFromSchema" /\ ret.err = Nil)
        => ret.d.attrs["section"] =
              [i \in 1..Len(UnmatchedSections) |-> GenericSection(UnmatchedSections[i])]

C6_Witness ==
    /\ pc = "returned"
    /\ call.op = "parseSectionFromSchema"
    /\ ret.err = Nil
    /\ Len(call.sections) = 2
    /\ call.sections[1].Name = "misc"
    /\ MatchedSections = {2}
    /\ Len(ret.d.attrs["section"]) = 1
    /\ ret.d.attrs["section"][1]["field"][1] = [name |-> "otp", totp |-> "123"]
    /\ ret.d.attrs["section"][1]["field"][2] = [name |-> "note", concealed |-> "s3"]

WellKnownKeys(g) ==
    IF g = "identification"
    THEN {"firstname", "initial", "lastname", "sex", "birth_date", "occupation",
          "company", "department", "job_title"}
    ELSE IF g = "address"
    THEN {"address", "default_phone", "home_phone", "cell_phone", "business_phone"}
    ELSE {"username", "email"}

FieldNames(list) == {list[n]["name"] : n \in 1..Len(list)}

\* C7: encoding a configuration with the three groups declared as
\* resourceItemIdentityCreate does, then decoding the Sections with the
\* groups of resourceItemIdentityRead, gives back every well-known attribute
\* and the title of every group, and the extra-fields list of a group holds
\* only the freeform fields the configuration declared.
C7_RoundTrip ==
    (pc = "returned" /\ call.op = "RoundTrip") =>
        /\ ret.err = Nil
        /\ \A g \in {"identification", "address", "internet"} :
              /\ g \in DOMAIN ret.d.attrs
              /\ Len(ret.d.attrs[g]) = 1
              /\ LET in == call.d.attrs[g][1]
                     out == ret.d.attrs[g][1]
                 IN  /\ DOMAIN out = WellKnownKeys(g) \cup {"title", "field"}
                     /\ \A k \in WellKnownKeys(g) \cup {"title"} :
                           k \in DOMAIN out /\ out[k] = in[k]
                     /\ Len(out["field"]) = Len(in["field"])
                     /\ FieldNames(out["field"]) = FieldNames(in["field"])

C7_Witness ==
    /\ pc = "returned"
    /\ call.op = "RoundTrip"
    /\ call.d.attrs["identification"][1]["firstname"] = "x"
    /\ call.d.attrs["identification"][1]["lastname"] = ""
    /\ call.d.attrs["identification"][1]["birth_date"] = "x"
    /\ Len(call.d.attrs["identification"][1]["field"]) = 2
    /\ ret.d.attrs["identification"][1]["firstname"] = "x"
    /\ ret.d.attrs["identification"][1]["birth_date"] = "x"

\* C8: in the identity and document read handlers, the failure of any step
\* (ReadItem, the template check, each attribute-set step, "archived"
\* included, ReadDocument, the section decoding) makes the handler return
\* an error diagnostic.
C8_EveryFailurePropagates ==
    ReadHandlerReturned => (ret.failed # <<>> => ret.err # Nil)

SameRecord == ret.d.id = call.d.id /\ ret.d.attrs = call.d.attrs

\* The step whose failure made the handler return.
FailedAt == ret.failed[Len(ret.failed)]

\* C9, as stated: whenever a read handler returns an error diagnostic, the
\* record's ID and every attribute are as they were before the call.
C9_NoPartialUpdate ==
    (ReadHandlerReturned /\ ret.err # Nil) => SameRecord

\* C9, as amended: when a read handler returns an error because ReadItem
\* failed or the template did not match, the record's ID and attributes are
\* as before; when it returns an error from a later step, the ID is already
\* the item's UUID and the writes of the earlier steps stay in the record.
C9_UnchangedUntilFirstSet ==
    (ReadHandlerReturned /\ ret.err # Nil) =>
        IF FailedAt \in {"ReadItem", "template"}
        THEN SameRecord
        ELSE /\ ret.d.id = call.o.obj.UUID
             /\ \A n \in 1..Len(ret.d.log) :
                   (\A m \in (n + 1)..Len(ret.d.log) : ret.d.log[m].key # ret.d.log[n].key)
                       => ret.d.attrs[ret.d.log[n].key] = ret.d.log[n].value

C9_Witness ==
    /\ ReadHandlerReturned
    /\ call.op = "IdentityRead"
    /\ ret.err # Nil
    /\ FailedAt = "tags"
    /\ ret.d.id = "u1"
    /\ call.d.id = "u0"
    /\ ret.d.attrs["name"] = "t1"
    /\ call.d.attrs["name"] = "t0"

Spawns == Cardinality({n \in 1..Len(procs) : procs[n].ev = "spawn"})

\* Every process is waited for before the next one is started.
OneAtATime ==
    \A n \in 1..Len(procs) : procs[n].ev = IF n % 2 = 1 THEN "spawn" ELSE "exit"

\* C10, as stated: every client call and every resource entry point spawns
\* exactly one external process, and no process is started before the
\* previous one has exited.
C10_ExactlyOneProcess ==
    pc = "returned" => (Spawns = 1 /\ OneAtATime)

\* C10, as amended: every client call spawns exactly one process, except
\* CreateItem with an unregistered template, which spawns none; a resource
\* entry point spawns one process per client call it makes: identity read
\* one, item delete one, document read one or two (ReadItem, then
\* ReadDocument), identity create at most two (CreateItem, then ReadItem),
\* document create at most three (CreateDocument, ReadItem, ReadDocument);
\* no process is started before the previous one has exited.
C10_ProcessesPerOperation ==
    pc = "returned" =>
        /\ OneAtATime
        /\ call.op \in {"ReadItem", "ReadDocument", "CreateDocument", "ReadVault",
                        "CreateVault", "IdentityRead", "ItemDelete"} => Spawns = 1
        /\ call.op = "CreateItem" =>
              Spawns = IF call.v.Template \in RegisteredTemplates THEN 1 ELSE 0
        /\ call.op = "DocumentRead" => Spawns \in {1, 2}
        /\ call.op = "IdentityCreate" => Spawns \in {0, 1, 2}
        /\ call.op = "DocumentCreate" => Spawns \in {0, 1, 2, 3}

C10_Witness ==
    /\ pc = "returned"
    /\ call.op = "DocumentCreate"
    /\ Spawns = 3
    /\ procs[1].ev = "spawn" /\ procs[1].args[1] = "create"
    /\ procs[3].ev = "spawn" /\ procs[3].args[2] = "item"
    /\ procs[5].ev = "spawn" /\ procs[5].args[2] = "document"

CategoryConverted ==
    pc = "returned" /\ call.op = "Category2Template"

TemplateConverted ==
    pc = "returned" /\ call.op = "Template2Category"

\* C11: for each of the 18 registered categories c,
\* Template2Category(Category2Template(c)) = c, the template identifier of c
\* is one of the 18 registered ones and no other registered category has it;
\* for each of the 18 registered template identifiers t,
\* Category2Template(Template2Category(t)) = t and the category of t is a
\* registered one.
C11_RegistryBijection ==
    /\ (CategoryConverted /\ call.c \in RegisteredCategories) =>
          /\ ret.back = call.c
          /\ ret.t \in RegisteredTemplates
          /\ (call.c2 \in RegisteredCategories /\ call.c2 # call.c) => ret.t2 # ret.t
    /\ (TemplateConverted /\ call.t \in RegisteredTemplates) =>
          /\ ret.back = call.t
          /\ ret.c \in RegisteredCategories
    /\ Cardinality(RegisteredCategories) = 18
    /\ Cardinality(RegisteredTemplates) = 18

C11_Witness ==
    /\ CategoryConverted
    /\ call.c = IdentityCategory
    /\ call.c2 = DocumentCategory
    /\ ret.t = "004"
    /\ ret.t2 = "006"
    /\ ret.back = IdentityCategory

\* CreateItem of an item with a registered template has returned.
CreateItemRan ==
    pc = "returned" /\ call.op = "CreateItem" /\ call.v.Template \in RegisteredTemplates

\* The four optional flags in the order of the claim, each with the value
\* the item gives it and the condition under which the claim has it present.
OptionalFlags(v) ==
    << [name |-> "--vault", value |-> v.Vault, present |-> v.Vault # ""],
       [name |-> "--title", value |-> v.Overview.Title,
        present |-> v.Overview.Title # ""],
       [name |-> "--url", value |-> v.Overview.URL, present |-> v.Overview.URL # ""],
       [name |-> "--tags", value |-> Join(v.Overview.Tags, ","),
        present |-> Len(v.Overview.Tags) > 0] >>

IsPresent(f) == f.present

ExpectedFlags(v) ==
    LET on == SelectSeq(OptionalFlags(v), IsPresent)
    IN  [i \in 1..Len(on) |-> on[i].name \o "=" \o on[i].value]

Argv == procs[1].args

EmptyFlags == {"--vault=", "--title=", "--url=", "--tags="}

\* The argument vector is [create, item, category name, details blob]
\* followed by the present flags, in the order vault, title, url, tags.
ArgvAsListed ==
    /\ Spawns = 1
    /\ Len(Argv) = 4 + Len(ExpectedFlags(call.v))
    /\ SubSeq(Argv, 1, 3) =
          <<opPasswordCreate, ItemResource, Template2Category(call.v.Template)>>
    /\ Argv[3] \in RegisteredCategories
    /\ Argv[4] = MarshalDetails(call.v.Details).blob
    /\ SubSeq(Argv, 5, Len(Argv)) = ExpectedFlags(call.v)

\* C12, as stated: for every item with a known template, the arguments
\* passed to the process runner are exactly [create, item, category name,
\* details blob] followed, in this order, by --vault, --title, --url and
\* --tags (the tags joined by comma), each present if and only if its value
\* is non-empty (tags: the list is non-empty); no flag with an empty value
\* is ever emitted.
C12_NoEmptyFlagValue ==
    CreateItemRan =>
        /\ ArgvAsListed
        /\ \A i \in 5..Len(Argv) : Argv[i] \notin EmptyFlags

\* C12, as amended: the argument vector is as listed, with --vault, --title
\* and --url present if and only if their value is non-empty and --tags
\* present if and only if the tag list is non-empty; --vault, --title and
\* --url are never emitted with an empty value, and --tags is emitted with
\* an empty value exactly when the tag list is the single empty tag.
C12_ArgumentVector ==
    CreateItemRan =>
        /\ ArgvAsListed
        /\ \A i \in 5..Len(Argv) : Argv[i] \notin (EmptyFlags \ {"--tags="})
        /\ (\E i \in 5..Len(Argv) : Argv[i] = "--tags=")
              <=> call.v.Overview.Tags = <<"">>

C12_Witness ==
    /\ CreateItemRan
    /\ call.v.Template = "004"
    /\ SubSeq(Argv, 1, 3) = <<"create", "item", "Identity">>
    /\ SubSeq(Argv, 5, Len(Argv)) =
          <<"--vault=v1", "--title=t1", "--url=example.com", "--tags=a,b">>

DocumentCreateReturned ==
    pc = "returned" /\ call.op = "DocumentCreate"

\* The attribute the configuration supplies the document through.
DocumentSource ==
    IF GetOk(call.d, "file_path") THEN "file_path"
    ELSE IF GetOk(call.d, "content_base64") THEN "content_base64"
    ELSE "content"

\* The byte sequences whose standard base64 encoding is the content_base64
\* of the configuration.
EncodedBy == {b \in SampleBytes : B64Encode(b) = call.d.attrs["content_base64"]}

\* The byte sequence B the configuration supplies, if it supplies one: the
\* file's bytes, the bytes content_base64 encodes, or the bytes of content.
Supplied ==
    CASE DocumentSource = "file_path" ->
            [ok |-> call.file.err = Nil, B |-> call.file.bytes]
      [] DocumentSource = "content_base64" ->
            IF EncodedBy = {} THEN [ok |-> FALSE, B |-> <<>>]
            ELSE [ok |-> TRUE, B |-> CHOOSE b \in EncodedBy : TRUE]
      [] OTHER -> [ok |-> TRUE, B |-> call.d.attrs["content"]]

DocumentFetches ==
    Cardinality({n \in 1..Len(procs) :
        /\ procs[n].ev = "spawn"
        /\ SubSeq(procs[n].args, 1, 2) = <<opPasswordGet, DocumentResource>>})

\* C13: for every byte sequence B supplied to document create through
\* file_path, content_base64 or content, the create process is started with
\* the "-" placeholder and B on its standard input; and when the read that
\* follows succeeds and the vault returns B, the record's content_base64 is
\* the standard base64 encoding of B and its content is B as text, after
\* exactly one document fetch.
C13_DocumentRoundTrip ==
    (DocumentCreateReturned /\ Supplied.ok) =>
        /\ Len(procs) >= 2
        /\ procs[1].ev = "spawn"
        /\ SubSeq(procs[1].args, 1, 3) = <<opPasswordCreate, DocumentResource, Stdin>>
        /\ procs[1].stdin = Supplied.B
        /\ (ret.err = Nil /\ Spawns = 3 /\ call.oDoc.bytes = Supplied.B) =>
              /\ ret.d.attrs["content_base64"] = B64Encode(Supplied.B)
              /\ ret.d.attrs["content"] = Supplied.B
              /\ DocumentFetches = 1

C13_Witness ==
    /\ DocumentCreateReturned
    /\ DocumentSource = "content_base64"
    /\ call.d.attrs["content_base64"] = <<19, 22, 4, B64Pad>>
    /\ procs[1].stdin = <<77, 97>>
    /\ ret.err = Nil
    /\ Spawns = 3
    /\ call.oDoc.bytes = <<77, 97>>
    /\ ret.d.attrs["content_base64"] = <<19, 22, 4, B64Pad>>
    /\ ret.d.attrs["content"] = <<77, 97>>

\* A decoding with the groups of resourceItemIdentityRead that returned no
\* error.
IdentityDecoded ==
    /\ pc = "returned"
    /\ call.op = "parseSectionFromSchema"
    /\ Len(call.groups) = 3
    /\ call.groups = IdentityGroups
    /\ ret.err = Nil

RECURSIVE FieldCount(_)
FieldCount(sections) ==
    IF Len(sections) = 0 THEN 0
    ELSE Len(sections[1].Fields) + FieldCount(Tail(sections))

\* The places of the decoded record that hold a field: the named attributes
\* and the extra fields of each group entry, and the fields of the entries
\* of the generic "section" list.
GroupSlots(g) ==
    IF g \in DOMAIN ret.d.attrs
    THEN Cardinality(DOMAIN ret.d.attrs[g][1] \ {"title", "field"})
         + Len(ret.d.attrs[g][1]["field"])
    ELSE 0

RECURSIVE GenericSlots(_)
GenericSlots(list) ==
    IF Len(list) = 0 THEN 0 ELSE Len(list[1]["field"]) + GenericSlots(Tail(list))

SlotCount ==
    GroupSlots("identification") + GroupSlots("address") + GroupSlots("internet")
    + GenericSlots(ret.d.attrs["section"])

\* Field n of Section i is in the decoded record: as a named attribute or an
\* extra field of the group its Section matches, or as a field of a generic
\* section entry that carries its Section's title.
Represented(i, n) ==
    LET section == call.sections[i]
        field == section.Fields[n]
    IN  IF i \in MatchedSections
        THEN LET group == call.groups[FirstMatch(i)]
                 entry == ret.d.attrs[group.Name][1]
             IN  /\ entry["title"] = section.Title
                 /\ \/ \E k \in DOMAIN group.Fields :
                          /\ group.Fields[k] = field.N
                          /\ k \in DOMAIN entry
                          /\ entry[k] = field.Value
                    \/ \E m \in 1..Len(entry["field"]) :
                          entry["field"][m] = GenericField(field)
        ELSE \E s \in 1..Len(ret.d.attrs["section"]) :
                /\ ret.d.attrs["section"][s]["name"] = section.Title
                /\ \E m \in 1..Len(ret.d.attrs["section"][s]["field"]) :
                      ret.d.attrs["section"][s]["field"][m] = GenericField(field)

\* C14: for every list of Sections decoded with the identity groups, also
\* when two Sections share a Name or two fields of a Section share a
\* field-name key, every field of every Section is in the decoded record
\* exactly once (as a named group attribute, as an extra field of its group,
\* or as a field of a generic section entry): the record has one place per
\* field and nothing is overwritten or dropped.
C14_LosslessDecode ==
    IdentityDecoded =>
        /\ \A i \in 1..Len(call.sections) :
              \A n \in 1..Len(call.sections[i].Fields) : Represented(i, n)
        /\ SlotCount = FieldCount(call.sections)

IdentityCreateReturned ==
    pc = "returned" /\ call.op = "IdentityCreate"

\* The handler aborted (a Go panic) instead of returning.
Aborted == ret.failed = <<"panic">>

\* C15: for every configuration in which each of the groups identification,
\* address and internet is present (one entry) or absent (the empty list),
\* resourceItemIdentityCreate returns an error diagnostic or a populated
\* record; it never aborts while building the item.
C15_OmittedGroupsTolerated ==
    IdentityCreateReturned =>
        /\ \A g \in {"identification", "address", "internet"} :
              Len(call.d.attrs[g]) \in {0, 1}
        /\ ~Aborted

====
